---- MODULE Spec2Model ----
(***************************************************************************)
(* b58uuid: the fixed-width Base58 codec for 16-byte UUIDs (base58.ts) and *)
(* the public UUID-text API built on it (index.ts).                        *)
(*                                                                         *)
(* A JavaScript string is modelled as the sequence of its UTF-16 code      *)
(* units, a Buffer / Uint8Array as a sequence of bytes, and a BigInt as    *)
(* the big-endian sequence of its base-256 limbs without leading zeros     *)
(* (0n is the empty sequence), so that BigInt arithmetic is unbounded as   *)
(* in the source while every machine operation stays small.                *)
(***************************************************************************)
EXTENDS Integers, Sequences, FiniteSets

VARIABLES
    REVERSE_ALPHABET,   \* the module-level Uint8Array(256) of base58.ts
    cur,                \* the call that ran last: [op, arg, res]
    prev                \* the call that ran before it

vars == <<REVERSE_ALPHABET, cur, prev>>

(***************************************************************************)
(* Characters.                                                             *)
(***************************************************************************)
\* The printable ASCII characters, code units 32..126 in order (the grave
\* accent, code unit 96, is spelled out: it is never looked up).
Printable ==
    <<" ", "!", "\"", "#", "$", "%", "&", "'", "(", ")", "*", "+", ",", "-", ".", "/",
      "0", "1", "2", "3", "4", "5", "6", "7", "8", "9", ":", ";", "<", "=", ">", "?",
      "@", "A", "B", "C", "D", "E", "F", "G", "H", "I", "J", "K", "L", "M", "N", "O",
      "P", "Q", "R", "S", "T", "U", "V", "W", "X", "Y", "Z", "[", "\\", "]", "^", "_",
      "grave", "a", "b", "c", "d", "e", "f", "g", "h", "i", "j", "k", "l", "m", "n", "o",
      "p", "q", "r", "s", "t", "u", "v", "w", "x", "y", "z", "{", "|", "}", "~">>

\* The code unit of each printable ASCII character.
CharCode ==
    [c \in { Printable[i] : i \in 1..Len(Printable) } |->
        31 + CHOOSE i \in 1..Len(Printable) : Printable[i] = c]

Ord(c) == CharCode[c]

\* A string literal, written character by character, as code units.
Str(chars) == [i \in 1..Len(chars) |-> Ord(chars[i])]

\* n copies of a code unit (or byte).
Repeat(x, n) == [i \in 1..n |-> x]

(***************************************************************************)
(* BigInt arithmetic on big-endian base-256 limbs.                         *)
(***************************************************************************)
RECURSIVE BigNorm(_)
BigNorm(s) ==
    IF s = <<>> THEN <<>>
    ELSE IF s[1] = 0 THEN BigNorm(Tail(s))
    ELSE s

\* (num << 8n) | BigInt(b), for a byte b
BigShl8Or(num, b) == IF num = <<>> /\ b = 0 THEN <<>> ELSE Append(num, b)

\* Number(num & 0xFFn)
BigAnd255(num) == IF num = <<>> THEN 0 ELSE num[Len(num)]

\* num >> 8n
BigShr8(num) == IF num = <<>> THEN <<>> ELSE SubSeq(num, 1, Len(num) - 1)

\* a > b
RECURSIVE BigLexGT(_, _, _)
BigLexGT(a, b, i) ==
    IF i > Len(a) THEN FALSE
    ELSE IF a[i] # b[i] THEN a[i] > b[i]
    ELSE BigLexGT(a, b, i + 1)

BigGT(a, b) ==
    IF Len(a) # Len(b) THEN Len(a) > Len(b) ELSE BigLexGT(a, b, 1)

\* Long division of num by the small divisor d: [q |-> num / d, r |-> num % d]
RECURSIVE BigDivRem(_, _, _, _, _)
BigDivRem(num, d, i, rem, q) ==
    IF i > Len(num) THEN [q |-> BigNorm(q), r |-> rem]
    ELSE LET t == rem * 256 + num[i]
         IN  BigDivRem(num, d, i + 1, t % d, Append(q, t \div d))

BigDiv(num, d) == BigDivRem(num, d, 1, 0, <<>>).q
BigMod(num, d) == BigDivRem(num, d, 1, 0, <<>>).r

\* The limbs of a small carry left over by a multiplication.
RECURSIVE CarryLimbs(_)
CarryLimbs(c) ==
    IF c = 0 THEN <<>> ELSE Append(CarryLimbs(c \div 256), c % 256)

\* num * m + a, for small m and a
RECURSIVE BigMulAddFrom(_, _, _, _, _)
BigMulAddFrom(num, m, i, carry, acc) ==
    IF i = 0 THEN CarryLimbs(carry) \o acc
    ELSE LET t == num[i] * m + carry
         IN  BigMulAddFrom(num, m, i - 1, t \div 256, <<t % 256>> \o acc)

BigMulAdd(num, m, a) == BigNorm(BigMulAddFrom(num, m, Len(num), a, <<>>))

(***************************************************************************)
(* base58.ts: constants and tables.                                        *)
(***************************************************************************)
\* Mutant: the same 58 symbols with the lower-case letters before the
\* upper-case ones.
ALPHABET_LowerFirst ==
    Str(<<"1", "2", "3", "4", "5", "6", "7", "8", "9",
          "a", "b", "c", "d", "e", "f", "g", "h", "i", "j", "k",
          "m", "n", "o", "p", "q", "r", "s", "t", "u", "v", "w", "x", "y", "z",
          "A", "B", "C", "D", "E", "F", "G", "H", "J", "K", "L", "M", "N",
          "P", "Q", "R", "S", "T", "U", "V", "W", "X", "Y", "Z">>)

ALPHABET ==
    Str(<<"1", "2", "3", "4", "5", "6", "7", "8", "9",
          "A", "B", "C", "D", "E", "F", "G", "H", "J", "K", "L", "M", "N",
          "P", "Q", "R", "S", "T", "U", "V", "W", "X", "Y", "Z",
          "a", "b", "c", "d", "e", "f", "g", "h", "i", "j", "k",
          "m", "n", "o", "p", "q", "r", "s", "t", "u", "v", "w", "x", "y", "z">>)

BASE58 == 58

\* Mutant: the literal two hex digits short.
MAX_UUID_Short == Repeat(255, 15)

\* Mutant: the literal two hex digits long.
MAX_UUID_Wide == Repeat(255, 17)

\* 0xffffffffffffffffffffffffffffffffn
MAX_UUID == Repeat(255, 16)

\* new Uint8Array(256), fill(255), then REVERSE_ALPHABET[ALPHABET.charCodeAt(i)] = i
RECURSIVE FillReverse(_, _)
FillReverse(table, i) ==
    IF i >= Len(ALPHABET) THEN table
    ELSE FillReverse([table EXCEPT ![ALPHABET[i + 1]] = i], i + 1)

\* Mutant: the table filled with 0 instead of the sentinel 255.
ReverseTable_FillZero == FillReverse([c \in 0..255 |-> 0], 0)

ReverseTable == FillReverse([c \in 0..255 |-> 255], 0)

\* ALPHABET[i] as result.map(i => ALPHABET[i]).join('') sees it: an index
\* outside the string reads undefined, which join renders as nothing.
AlphabetAt(i) == IF i \in 0..(Len(ALPHABET) - 1) THEN <<ALPHABET[i + 1]>> ELSE <<>>

(***************************************************************************)
(* base58.ts: encode.                                                      *)
(***************************************************************************)
\* for (i = 0; i < 16; i++) num = (num << 8n) | BigInt(bytes[i])
RECURSIVE BytesToBigInt(_, _, _)
BytesToBigInt(bytes, i, num) ==
    IF i >= 16 THEN num
    ELSE BytesToBigInt(bytes, i + 1, BigShl8Or(num, bytes[i + 1]))

\* Mutant: the divide loop run in base 64.
RECURSIVE IntegerToDigits_Base64(_, _)
IntegerToDigits_Base64(num, result) ==
    IF ~BigGT(num, <<>>) THEN result
    ELSE LET dr == BigDivRem(num, 64, 1, 0, <<>>)
         IN  IntegerToDigits_Base64(dr.q, Append(result, dr.r))

\* while (num > 0n) { result.push(Number(num % BASE58)); num = num / BASE58 }
RECURSIVE IntegerToDigits(_, _)
IntegerToDigits(num, result) ==
    IF ~BigGT(num, <<>>) THEN result
    ELSE LET dr == BigDivRem(num, BASE58, 1, 0, <<>>)
         IN  IntegerToDigits(dr.q, Append(result, dr.r))

\* result.reverse()
Reverse(s) == [i \in 1..Len(s) |-> s[Len(s) + 1 - i]]

\* Mutant: the padding loop stops one short.
RECURSIVE PadDigits_To21(_)
PadDigits_To21(result) ==
    IF Len(result) < 21 THEN PadDigits_To21(<<0>> \o result) ELSE result

\* Mutant: no padding at all.
PadDigits_None(result) == result

\* Mutant: the padding is pushed at the end instead of unshifted in front.
RECURSIVE PadDigits_Append(_)
PadDigits_Append(result) ==
    IF Len(result) < 22 THEN PadDigits_Append(result \o <<0>>) ELSE result

\* while (result.length < 22) result.unshift(0)
RECURSIVE PadDigits(_)
PadDigits(result) ==
    IF Len(result) < 22 THEN PadDigits(<<0>> \o result) ELSE result

\* result.map(i => ALPHABET[i]).join('')
RECURSIVE DigitsToString(_, _)
DigitsToString(result, i) ==
    IF i > Len(result) THEN <<>>
    ELSE AlphabetAt(result[i]) \o DigitsToString(result, i + 1)

\* The digits the divide loop leaves, most significant first (lines 34-47).
EncodeDigits(data) == Reverse(IntegerToDigits(BytesToBigInt(data, 0, <<>>), <<>>))

Base58Encode(data) ==
    IF Len(data) # 16
    THEN [kind |-> "Error", failure |-> "InvalidLength", len |-> Len(data)]
    ELSE [kind |-> "ok", value |-> DigitsToString(PadDigits(EncodeDigits(data)), 1)]

(***************************************************************************)
(* base58.ts: decode.                                                      *)
(***************************************************************************)
\* Mutant: push instead of unshift, the bytes come out little-endian.
RECURSIVE BigIntToBytes_Push(_, _, _)
BigIntToBytes_Push(num, i, bytes) ==
    IF i >= 16 THEN bytes
    ELSE BigIntToBytes_Push(BigShr8(num), i + 1, Append(bytes, BigAnd255(num)))

\* for (i = 0; i < 16; i++) { bytes.unshift(Number(num & 0xFFn)); num = num >> 8n }
RECURSIVE BigIntToBytes(_, _, _)
BigIntToBytes(num, i, bytes) ==
    IF i >= 16 THEN bytes
    ELSE BigIntToBytes(BigShr8(num), i + 1, <<BigAnd255(num)>> \o bytes)

\* The accumulation loop over b58 from index i with running value num.  A
\* thrown Error is a record: failure is the kind of failure its message
\* states, text the fixed part of the message, pos and ch the position and
\* character the message names; steps is the number of multiply-add steps
\* done when the overflow check fired (the message does not carry it).
RECURSIVE DecodeLoop(_, _, _)
DecodeLoop(b58, i, num) ==
    IF i >= Len(b58) THEN [kind |-> "ok", value |-> BigIntToBytes(num, 0, <<>>)]
    ELSE LET charCode == b58[i + 1] IN
         IF charCode > 255
         THEN [kind |-> "Error", failure |-> "InvalidCharacter",
               text |-> "Invalid character at position", pos |-> i, ch |-> b58[i + 1]]
         ELSE LET digit == REVERSE_ALPHABET[charCode] IN
              IF digit = 255
              THEN [kind |-> "Error", failure |-> "InvalidCharacter",
                    text |-> "Invalid Base58 character at position",
                    pos |-> i, ch |-> b58[i + 1]]
              ELSE LET next == BigMulAdd(num, BASE58, digit) IN
                   IF BigGT(next, MAX_UUID)
                   THEN [kind |-> "Error", failure |-> "Overflow", steps |-> i + 1]
                   ELSE DecodeLoop(b58, i + 1, next)

\* Mutant: the length check is missing.
Base58Decode_NoLengthCheck(b58) ==
    IF Len(b58) = 0
    THEN [kind |-> "Error", failure |-> "InvalidFormat"]
    ELSE DecodeLoop(b58, 0, <<>>)

\* Mutant: the length check runs first.
Base58Decode_LengthFirst(b58) ==
    IF Len(b58) # 22
    THEN [kind |-> "Error", failure |-> "InvalidLength", len |-> Len(b58)]
    ELSE IF Len(b58) = 0
    THEN [kind |-> "Error", failure |-> "InvalidFormat"]
    ELSE DecodeLoop(b58, 0, <<>>)

\* Mutant: the character scan runs before the length check.
Base58Decode_ScanFirst(b58) ==
    IF Len(b58) = 0
    THEN [kind |-> "Error", failure |-> "InvalidFormat"]
    ELSE LET scan == DecodeLoop(b58, 0, <<>>) IN
         IF scan.kind = "Error" /\ scan.failure = "InvalidCharacter" THEN scan
         ELSE IF Len(b58) # 22
         THEN [kind |-> "Error", failure |-> "InvalidLength", len |-> Len(b58)]
         ELSE scan

Base58Decode(b58) ==
    IF Len(b58) = 0
    THEN [kind |-> "Error", failure |-> "InvalidFormat"]
    ELSE IF Len(b58) # 22
    THEN [kind |-> "Error", failure |-> "InvalidLength", len |-> Len(b58)]
    ELSE DecodeLoop(b58, 0, <<>>)

(***************************************************************************)
(* index.ts: error types and the UUID text parser.                         *)
(***************************************************************************)
\* new InvalidUUIDError(uuidStr, originalError): the message is the
\* template literal `Invalid UUID format: ${uuidStr}`
InvalidUUIDError(uuidStr, originalError) ==
    [kind |-> "InvalidUUIDError", name |-> "InvalidUUIDError",
     message |-> Str(<<"I", "n", "v", "a", "l", "i", "d", " ", "U", "U", "I", "D", " ",
                       "f", "o", "r", "m", "a", "t", ":", " ">>) \o uuidStr,
     originalError |-> originalError]

\* Mutant: replace('-', '') without the g flag removes the first hyphen only.
RECURSIVE RemoveHyphens_FirstOnly(_)
RemoveHyphens_FirstOnly(s) ==
    IF s = <<>> THEN <<>>
    ELSE IF Head(s) = Ord("-") THEN Tail(s)
    ELSE <<Head(s)>> \o RemoveHyphens_FirstOnly(Tail(s))

\* uuidStr.replace(/-/g, '')
RECURSIVE RemoveHyphens(_)
RemoveHyphens(s) ==
    IF s = <<>> THEN <<>>
    ELSE IF Head(s) = Ord("-") THEN RemoveHyphens(Tail(s))
    ELSE <<Head(s)>> \o RemoveHyphens(Tail(s))

\* String.prototype.toLowerCase on one code unit: ASCII and Latin-1 capitals,
\* U+0130 (which becomes two code units), the Kelvin and Angstrom signs; the
\* other code units the model uses have no lower-case mapping.
LowerCaseOf(c) ==
    IF c \in 65..90 THEN <<c + 32>>
    ELSE IF c \in (192..222) \ {215} THEN <<c + 32>>
    ELSE IF c = 304 THEN <<105, 775>>
    ELSE IF c = 8490 THEN <<107>>
    ELSE IF c = 8491 THEN <<229>>
    ELSE <<c>>

RECURSIVE ToLowerCase(_)
ToLowerCase(s) ==
    IF s = <<>> THEN <<>> ELSE LowerCaseOf(Head(s)) \o ToLowerCase(Tail(s))

\* [0-9a-f]
LowerHexChars == (Ord("0")..Ord("9")) \cup (Ord("a")..Ord("f"))

IsLowerHexChar(c) == c \in LowerHexChars

\* /^[0-9a-f]{32}$/.test(cleanUUID)
MatchesHex32(cleanUUID) ==
    Len(cleanUUID) = 32 /\ \A i \in 1..32 : IsLowerHexChar(cleanUUID[i])

\* The value of a digit parseInt(_, 16) accepts, -1 for any other code unit.
HexDigitValue(c) ==
    IF c \in Ord("0")..Ord("9") THEN c - Ord("0")
    ELSE IF c \in Ord("a")..Ord("f") THEN c - Ord("a") + 10
    ELSE IF c \in Ord("A")..Ord("F") THEN c - Ord("A") + 10
    ELSE -1

\* parseInt(hexByte, 16) for a two-character hexByte: the longest prefix of
\* hex digits is read, and NaN (here -1) is returned when there is none
\* (parseInt's white space, sign and 0x prefixes cannot reach it: the hex
\* check runs first).
ParseIntHex(hexByte) ==
    IF HexDigitValue(hexByte[1]) < 0 THEN -1
    ELSE IF HexDigitValue(hexByte[2]) < 0 THEN HexDigitValue(hexByte[1])
    ELSE HexDigitValue(hexByte[1]) * 16 + HexDigitValue(hexByte[2])

\* The loop of parseUUID over the 16 bytes, from byte i.
RECURSIVE ParseHexBytes(_, _, _)
ParseHexBytes(cleanUUID, i, bytes) ==
    IF i >= 16 THEN [kind |-> "ok", value |-> bytes]
    ELSE LET hexByte == SubSeq(cleanUUID, i * 2 + 1, i * 2 + 2)
             byteValue == ParseIntHex(hexByte)
         IN  IF byteValue < 0
             THEN [kind |-> "Error", failure |-> "InvalidHexByte",
                   pos |-> i, hexByte |-> hexByte]
             ELSE ParseHexBytes(cleanUUID, i + 1, Append(bytes, byteValue))

\* Mutant: the hex check is missing, parseInt alone decides.
ParseUUID_NoHexCheck(uuidStr) ==
    LET cleanUUID == ToLowerCase(RemoveHyphens(uuidStr)) IN
    IF Len(cleanUUID) # 32
    THEN [kind |-> "Error", failure |-> "InvalidUUIDLength", len |-> Len(cleanUUID)]
    ELSE ParseHexBytes(cleanUUID, 0, <<>>)

parseUUID(uuidStr) ==
    LET cleanUUID == ToLowerCase(RemoveHyphens(uuidStr)) IN
    IF Len(cleanUUID) # 32
    THEN [kind |-> "Error", failure |-> "InvalidUUIDLength", len |-> Len(cleanUUID)]
    ELSE IF ~MatchesHex32(cleanUUID)
    THEN [kind |-> "Error", failure |-> "NotHexadecimal"]
    ELSE ParseHexBytes(cleanUUID, 0, <<>>)

(***************************************************************************)
(* index.ts: the public encode.                                            *)
(***************************************************************************)
encode(uuidStr) ==
    LET parsed == parseUUID(uuidStr) IN
    IF parsed.kind # "ok" THEN InvalidUUIDError(uuidStr, parsed)
    ELSE LET encoded == Base58Encode(parsed.value) IN
         IF encoded.kind # "ok" THEN InvalidUUIDError(uuidStr, encoded)
         ELSE encoded

(***************************************************************************)
(* index.ts: the UUID stringifier and the public decode.                   *)
(***************************************************************************)
\* new InvalidB58Error(b58Str, originalError): the message is the template
\* literal `Invalid Base58 format: ${b58Str}`
InvalidB58Error(b58Str, originalError) ==
    [kind |-> "InvalidB58Error", name |-> "InvalidB58Error",
     message |-> Str(<<"I", "n", "v", "a", "l", "i", "d", " ", "B", "a", "s", "e", "5", "8",
                       " ", "f", "o", "r", "m", "a", "t", ":", " ">>) \o b58Str,
     originalError |-> originalError]

\* The digits Number.prototype.toString(16) writes.
Digits16 ==
    Str(<<"0", "1", "2", "3", "4", "5", "6", "7", "8", "9", "a", "b", "c", "d", "e", "f">>)

\* b.toString(16) for a byte b: one digit below 16, two from 16 on
ToString16(b) ==
    IF b < 16 THEN <<Digits16[b + 1]>>
    ELSE <<Digits16[(b \div 16) + 1], Digits16[(b % 16) + 1]>>

\* Mutant: padStart is forgotten.
PadStart2_None(s) == s

\* s.padStart(2, '0')
PadStart2(s) == IF Len(s) < 2 THEN Repeat(Ord("0"), 2 - Len(s)) \o s ELSE s

\* Array.from(bytes).map(b => b.toString(16).padStart(2, '0')).join('')
RECURSIVE BytesToHex(_)
BytesToHex(bytes) ==
    IF bytes = <<>> THEN <<>>
    ELSE PadStart2(ToString16(Head(bytes))) \o BytesToHex(Tail(bytes))

\* hex.substring(from, to), with 0-based from and exclusive to, both clamped
\* to the length of hex (from <= to in every use)
Substring(hex, from, to) ==
    LET Clamp(n) == IF n > Len(hex) THEN Len(hex) ELSE n
    IN  SubSeq(hex, Clamp(from) + 1, Clamp(to))

stringifyUUID(bytes, includeHyphens) ==
    IF Len(bytes) # 16
    THEN [kind |-> "Error", failure |-> "InvalidBytes", len |-> Len(bytes)]
    ELSE LET hex == BytesToHex(bytes) IN
         IF includeHyphens
         THEN [kind |-> "ok",
               value |-> Substring(hex, 0, 8) \o <<Ord("-")>> \o Substring(hex, 8, 12)
                             \o <<Ord("-")>> \o Substring(hex, 12, 16) \o <<Ord("-")>>
                             \o Substring(hex, 16, 20) \o <<Ord("-")>>
                             \o Substring(hex, 20, Len(hex))]
         ELSE [kind |-> "ok", value |-> hex]

\* Mutant: the core failure is rethrown as it is.
decode_NoWrap(b58) ==
    LET buffer == Base58Decode(b58) IN
    IF buffer.kind # "ok" THEN buffer
    ELSE stringifyUUID(buffer.value, TRUE)

decode(b58) ==
    LET buffer == Base58Decode(b58) IN
    IF buffer.kind # "ok" THEN InvalidB58Error(b58, buffer)
    ELSE LET text == stringifyUUID(buffer.value, TRUE) IN
         IF text.kind # "ok" THEN InvalidB58Error(b58, text)
         ELSE text

(***************************************************************************)
(* index.ts: generate.                                                     *)
(***************************************************************************)
\* Mutant: the variant mask is forgotten, bytes[8] | 0x80 keeps bit 6.
generateUUIDv4_NoMask(random) ==
    [random EXCEPT ![7] = (@ % 16) + 64,
                   ![9] = IF @ >= 128 THEN @ ELSE @ + 128]

\* generateUUIDv4 on the 16 bytes randomBytes(16) returned:
\* bytes[6] = (bytes[6] & 0x0f) | 0x40 and bytes[8] = (bytes[8] & 0x3f) | 0x80
\* (b & 0x0f is b % 16, b & 0x3f is b % 64, and | adds the bits just cleared)
generateUUIDv4(random) ==
    [random EXCEPT ![7] = (@ % 16) + 64,
                   ![9] = (@ % 64) + 128]

generate(random) == Base58Encode(generateUUIDv4(random))

(***************************************************************************)
(* Inputs.                                                                 *)
(***************************************************************************)
MaxLowByte == 1

ByteSamples == (0..MaxLowByte) \cup ((255 - MaxLowByte)..255)

\* 16-byte buffers: k bytes a, one byte p, then bytes b.
Buffers16 ==
    { Repeat(a, k) \o <<p>> \o Repeat(b, 15 - k) :
        a \in {0, 255}, p \in ByteSamples, b \in ByteSamples, k \in 0..15 }

\* Buffers of a wrong length.
BuffersBadLen == { Repeat(1, n) : n \in {0, 15, 17} }

MaxLowDigit == 1

DigitSamples == (0..MaxLowDigit) \cup ((BASE58 - 1 - MaxLowDigit)..(BASE58 - 1))

\* 22 alphabet symbols: k symbols a, one symbol p, then symbols b.
SymbolStrings ==
    { Repeat(ALPHABET[a + 1], k) \o <<ALPHABET[p + 1]>> \o Repeat(ALPHABET[b + 1], 21 - k) :
        a \in DigitSamples, p \in DigitSamples, b \in DigitSamples, k \in 0..21 }

\* The encoding of ffffffff-ffff-ffff-ffff-ffffffffffff the tests give.
MaxB58 ==
    Str(<<"Y", "c", "V", "f", "x", "k", "Q", "b", "6", "J", "R",
          "z", "q", "k", "5", "k", "F", "2", "t", "N", "L", "v">>)

MaxDelta == 1

\* MaxB58 with one symbol moved up or down the alphabet by at most MaxDelta.
NearMaxStrings ==
    UNION { { [MaxB58 EXCEPT ![k] = ALPHABET[e + 1]] :
                e \in { d \in 0..(BASE58 - 1) :
                          \E i \in (d - MaxDelta)..(d + MaxDelta) :
                              i \in 0..(BASE58 - 1) /\ ALPHABET[i + 1] = MaxB58[k] } } :
            k \in 1..22 }

\* The excluded look-alikes 0 O I l, a space, a Latin-1 code unit, and code
\* units above 255.
ExcludedChars == { Ord("0"), Ord("O"), Ord("I"), Ord("l") }
BadChars == ExcludedChars \cup { Ord(" "), 200, 300, 27979 }

\* 22 characters, one of them outside the alphabet.
OneBadCharStrings ==
    { [s EXCEPT ![k] = c] :
        s \in { Repeat(Ord("1"), 22), MaxB58, Repeat(Ord("z"), 22) },
        k \in 1..22, c \in BadChars }

\* 22 characters, two of them outside the alphabet and different: one at
\* index i, the other next to it or at the end.
TwoBadCharStrings ==
    UNION { { [Repeat(Ord("z"), 22) EXCEPT ![i] = c, ![j] = d] :
                j \in {i + 1, 22},
                c \in { Ord("l"), Ord(" "), 200, 300 }, d \in { Ord("0"), 27979 } } :
            i \in 1..21 }

MaxLen == 24
LongLen == 100

\* Strings of every length up to MaxLen, and one of length LongLen.
LengthStrings ==
    { Repeat(c, n) : c \in { Ord("1"), Ord("z"), Ord("0") },
                     n \in (0..MaxLen) \cup {LongLen} }

\* The UUIDs of the tests, as bytes: 550e8400-e29b-41d4-a716-446655440000,
\* deadbeef-cafe-babe-0123-456789abcdef, the nil UUID, the max UUID, and 1.
UuidBuffers ==
    { <<85, 14, 132, 0, 226, 155, 65, 212, 167, 22, 68, 102, 85, 68, 0, 0>>,
      <<222, 173, 190, 239, 202, 254, 186, 190, 1, 35, 69, 103, 137, 171, 205, 239>>,
      Repeat(0, 16), Repeat(255, 16), Repeat(0, 15) \o <<1>> }

HexChars ==
    Str(<<"0", "1", "2", "3", "4", "5", "6", "7", "8", "9", "a", "b", "c", "d", "e", "f">>)

\* The 32 lower-case hex digits of a buffer.
RECURSIVE HexText(_)
HexText(bytes) ==
    IF bytes = <<>> THEN <<>>
    ELSE <<HexChars[(Head(bytes) \div 16) + 1], HexChars[(Head(bytes) % 16) + 1]>>
             \o HexText(Tail(bytes))

MaxHyphens == 2

CaseModes == {"lower", "upper", "mixed"}

\* One hex digit in the given case mode (mixed: capitals at odd positions).
InCase(c, i, mode) ==
    IF c \in Ord("a")..Ord("f") /\ (mode = "upper" \/ (mode = "mixed" /\ i % 2 = 1))
    THEN c - 32 ELSE c

\* A spelling of the hex digits from digit i on: the 8-4-4-4-12 hyphens when
\* canonical, n more hyphens in front of digit k + 1 (after the last digit
\* when k = 32), letters in the given case mode.
RECURSIVE Respell(_, _, _, _, _, _)
Respell(hex, i, canonical, k, n, mode) ==
    LET hyphens == Repeat(Ord("-"), (IF i = k THEN n ELSE 0)
                                     + (IF canonical /\ i \in {8, 12, 16, 20} THEN 1 ELSE 0))
    IN  IF i >= Len(hex) THEN hyphens
        ELSE hyphens \o <<InCase(hex[i + 1], i + 1, mode)>>
                 \o Respell(hex, i + 1, canonical, k, n, mode)

\* The canonical text of the tests' UUIDs.
UuidTexts == { Respell(HexText(b), 0, TRUE, 0, 0, "lower") : b \in UuidBuffers }

\* Characters that are no hex digit: g, G, @, a space, U+00C8, U+0130 (whose
\* lower case is two code units) and the Kelvin sign (whose lower case is k).
BadUuidChars == { Ord("g"), Ord("G"), Ord("@"), Ord(" "), 200, 304, 8490 }

\* 32 characters, one of them no hex digit.
OneBadUuidChar ==
    { [hex EXCEPT ![k] = c] :
        hex \in { HexText(Repeat(255, 16)), HexText(Repeat(0, 15) \o <<1>>) },
        k \in 1..32, c \in BadUuidChars }

\* 31 characters, one of them U+0130: 32 code units once in lower case.
DottedI31 ==
    { Tail([HexText(Repeat(255, 16)) EXCEPT ![k] = 304]) : k \in 2..32 }

MaxHexLen == 34

\* Hex digits or hyphens only, but not 32 digits.
WrongCount ==
    { Repeat(c, n) : c \in { Ord("a"), Ord("-") }, n \in 0..MaxHexLen } \ { Repeat(Ord("a"), 32) }

\* 'invalid-uuid'
InvalidUuidText == Str(<<"i", "n", "v", "a", "l", "i", "d", "-", "u", "u", "i", "d">>)

EncodeInputs ==
    UuidTexts \cup OneBadUuidChar \cup DottedI31 \cup WrongCount \cup {InvalidUuidText}

DecodeInputs ==
    SymbolStrings \cup NearMaxStrings \cup OneBadCharStrings \cup TwoBadCharStrings
        \cup LengthStrings

(***************************************************************************)
(* The calls.                                                              *)
(***************************************************************************)
NoCall == [op |-> "none", arg |-> <<>>, res |-> [kind |-> "none"]]

Init ==
    /\ REVERSE_ALPHABET = ReverseTable
    /\ cur = NoCall
    /\ prev = NoCall

\* base58.encode(data) on a fresh buffer
CoreEncode(data) ==
    /\ cur.op = "none"
    /\ cur' = [op |-> "coreEncode", arg |-> data, res |-> Base58Encode(data)]
    /\ prev' = cur
    /\ UNCHANGED REVERSE_ALPHABET

\* base58.decode(b58) on a fresh string
CoreDecode(b58) ==
    /\ cur.op = "none"
    /\ cur' = [op |-> "coreDecode", arg |-> b58, res |-> Base58Decode(b58)]
    /\ prev' = cur
    /\ UNCHANGED REVERSE_ALPHABET

\* base58.decode applied to the string the last base58.encode returned
CoreDecodeEncoded ==
    /\ cur.op = "coreEncode"
    /\ cur.res.kind = "ok"
    /\ cur' = [op |-> "coreDecode", arg |-> cur.res.value,
               res |-> Base58Decode(cur.res.value)]
    /\ prev' = cur
    /\ UNCHANGED REVERSE_ALPHABET

\* base58.encode applied to the buffer the last base58.decode returned
CoreEncodeDecoded ==
    /\ cur.op = "coreDecode"
    /\ cur.res.kind = "ok"
    /\ cur' = [op |-> "coreEncode", arg |-> cur.res.value,
               res |-> Base58Encode(cur.res.value)]
    /\ prev' = cur
    /\ UNCHANGED REVERSE_ALPHABET

\* encode(uuidStr) of index.ts on a fresh string
PublicEncode(uuidStr) ==
    /\ cur.op = "none"
    /\ cur' = [op |-> "encode", arg |-> uuidStr, res |-> encode(uuidStr)]
    /\ prev' = cur
    /\ UNCHANGED REVERSE_ALPHABET

\* encode(uuidStr) of index.ts on another spelling of the UUID just encoded
PublicEncodeRespelled(canonical, k, n, mode) ==
    /\ cur.op = "encode"
    /\ prev.op = "none"
    /\ cur.arg \in UuidTexts
    /\ LET uuidStr == Respell(SelectSeq(cur.arg, LAMBDA c : c # Ord("-")),
                              0, canonical, k, n, mode)
       IN  cur' = [op |-> "encode", arg |-> uuidStr, res |-> encode(uuidStr)]
    /\ prev' = cur
    /\ UNCHANGED REVERSE_ALPHABET

Next ==
    \/ \E data \in Buffers16 \cup BuffersBadLen : CoreEncode(data)
    \/ \E b58 \in DecodeInputs : CoreDecode(b58)
    \/ CoreDecodeEncoded
    \/ CoreEncodeDecoded
    \/ \E uuidStr \in EncodeInputs : PublicEncode(uuidStr)
    \/ \E canonical \in BOOLEAN, k \in 0..32, n \in 0..MaxHyphens, mode \in CaseModes :
           PublicEncodeRespelled(canonical, k, n, mode)

Spec == Init /\ [][Next]_vars

(***************************************************************************)
(* The calls of the public decode and of generate.                         *)
(***************************************************************************)
\* decode(b58) of index.ts on a fresh string
PublicDecode(b58) ==
    /\ cur.op = "none"
    /\ cur' = [op |-> "decode", arg |-> b58, res |-> decode(b58)]
    /\ prev' = cur
    /\ UNCHANGED REVERSE_ALPHABET

\* decode of index.ts applied to the string the last encode returned
PublicDecodeEncoded ==
    /\ cur.op = "encode"
    /\ cur.res.kind = "ok"
    /\ cur' = [op |-> "decode", arg |-> cur.res.value, res |-> decode(cur.res.value)]
    /\ prev' = cur
    /\ UNCHANGED REVERSE_ALPHABET

\* generate() of index.ts, with the bytes the random source returns
Generate(random) ==
    /\ cur.op = "none"
    /\ cur' = [op |-> "generate", arg |-> random, res |-> generate(random)]
    /\ prev' = cur
    /\ UNCHANGED REVERSE_ALPHABET

\* decode of index.ts applied to the string the last generate returned
PublicDecodeGenerated ==
    /\ cur.op = "generate"
    /\ cur.res.kind = "ok"
    /\ cur' = [op |-> "decode", arg |-> cur.res.value, res |-> decode(cur.res.value)]
    /\ prev' = cur
    /\ UNCHANGED REVERSE_ALPHABET

NextPublic ==
    \/ \E b58 \in DecodeInputs : PublicDecode(b58)
    \/ \E uuidStr \in EncodeInputs : PublicEncode(uuidStr)
    \/ \E canonical \in BOOLEAN, k \in 0..32, n \in 0..MaxHyphens, mode \in CaseModes :
           PublicEncodeRespelled(canonical, k, n, mode)
    \/ PublicDecodeEncoded
    \/ \E random \in Buffers16 : Generate(random)
    \/ PublicDecodeGenerated

SpecPublic == Init /\ [][NextPublic]_vars

(***************************************************************************)
(* Calls in any order.  encode and decode of base58.ts and index.ts are    *)
(* synchronous functions without await or yield, so a call runs to its     *)
(* return before the next one starts: each call is one step.               *)
(***************************************************************************)
CallBuffers == {Repeat(0, 16), Repeat(255, 16), Repeat(0, 15) \o <<1>>}

CallStrings ==
    {Repeat(Ord("1"), 22), MaxB58, Repeat(Ord("z"), 22),
     Repeat(Ord("1"), 21) \o <<Ord("0")>>, Str(<<"a", "b", "c">>)}

CallTexts ==
    {Respell(HexText(Repeat(255, 16)), 0, TRUE, 0, 0, "lower"), Str(<<"x", "y">>)}

CallB58 == {MaxB58, Repeat(Ord("l"), 22)}

\* base58.encode(data), whatever ran before
CallCoreEncode(data) ==
    /\ cur' = [op |-> "coreEncode", arg |-> data, res |-> Base58Encode(data)]
    /\ prev' = cur
    /\ UNCHANGED REVERSE_ALPHABET

\* Mutant: a rejected character is entered into the table as digit 0.
CallCoreDecode_Memo(b58) ==
    LET res == Base58Decode(b58) IN
    /\ cur' = [op |-> "coreDecode", arg |-> b58, res |-> res]
    /\ prev' = cur
    /\ REVERSE_ALPHABET' =
           IF res.kind = "Error" /\ res.failure = "InvalidCharacter" /\ res.ch <= 255
           THEN [REVERSE_ALPHABET EXCEPT ![res.ch] = 0]
           ELSE REVERSE_ALPHABET

\* base58.decode(b58), whatever ran before
CallCoreDecode(b58) ==
    /\ cur' = [op |-> "coreDecode", arg |-> b58, res |-> Base58Decode(b58)]
    /\ prev' = cur
    /\ UNCHANGED REVERSE_ALPHABET

\* encode(uuidStr) of index.ts, whatever ran before
CallEncode(uuidStr) ==
    /\ cur' = [op |-> "encode", arg |-> uuidStr, res |-> encode(uuidStr)]
    /\ prev' = cur
    /\ UNCHANGED REVERSE_ALPHABET

\* decode(b58Str) of index.ts, whatever ran before
CallDecode(b58) ==
    /\ cur' = [op |-> "decode", arg |-> b58, res |-> decode(b58)]
    /\ prev' = cur
    /\ UNCHANGED REVERSE_ALPHABET

NextCalls ==
    \/ \E data \in CallBuffers : CallCoreEncode(data)
    \/ \E b58 \in CallStrings : CallCoreDecode(b58)
    \/ \E uuidStr \in CallTexts : CallEncode(uuidStr)
    \/ \E b58 \in CallB58 : CallDecode(b58)

SpecCalls == Init /\ [][NextCalls]_vars

(***************************************************************************)
(* Pairs of encodings.                                                     *)
(***************************************************************************)
\* 16-byte buffers that differ at the first, a middle or the last byte.
OrderBuffers ==
    { Repeat(a, k) \o <<p>> \o Repeat(b, 15 - k) :
        a \in {0, 255}, p \in ByteSamples, b \in {0, 255}, k \in {0, 8, 15} }

NextOrder == \E data \in OrderBuffers : CallCoreEncode(data)

SpecOrder == Init /\ [][NextOrder]_vars

(***************************************************************************)
(* Properties of the core codec.                                           *)
(***************************************************************************)
\* The 58 symbols, as ranges of code units.
Alphabet58 ==
    (Ord("1")..Ord("9")) \cup (Ord("A")..Ord("H")) \cup (Ord("J")..Ord("N"))
        \cup (Ord("P")..Ord("Z")) \cup (Ord("a")..Ord("k")) \cup (Ord("m")..Ord("z"))

\* The position of each alphabet symbol in the alphabet.
SymbolValues == [c \in Alphabet58 |-> CHOOSE d \in 0..57 : ALPHABET[d + 1] = c]

SymbolValue(c) == SymbolValues[c]

\* The base-58 value of a string of alphabet symbols, as a BigInt.
RECURSIVE Base58ValueFrom(_, _, _)
Base58ValueFrom(s, i, acc) ==
    IF i > Len(s) THEN acc
    ELSE Base58ValueFrom(s, i + 1, BigMulAdd(acc, 58, SymbolValue(s[i])))

Base58Value(s) == Base58ValueFrom(s, 1, <<>>)

IsSymbolString(s) == Len(s) = 22 /\ \A i \in 1..22 : s[i] \in Alphabet58

HasExcludedChar(s) == \E i \in 1..Len(s) : s[i] \in ExcludedChars

DecodeFails(kind) == cur.res.kind = "Error" /\ cur.res.failure = kind

\* C1: decoding what encode returned for a 16-byte buffer succeeds and
\* returns exactly the 16 bytes of the buffer, in the same order.
C1_RoundTrip ==
    (cur.op = "coreDecode" /\ prev.op = "coreEncode" /\ Len(prev.arg) = 16)
        => cur.res = [kind |-> "ok", value |-> prev.arg]

C1_Witness ==
    /\ cur.op = "coreDecode" /\ prev.op = "coreEncode"
    /\ cur.arg = prev.res.value
    /\ prev.arg[1] = 255 /\ prev.arg[16] = 1
    /\ cur.res.kind = "ok"

\* C2: for a 16-byte buffer encode returns exactly 22 characters; the
\* divide loop leaves at most 22 digits and the padding loop brings them to
\* exactly 22.
C2_FixedWidth ==
    (cur.op = "coreEncode" /\ Len(cur.arg) = 16)
        => /\ cur.res.kind = "ok"
           /\ Len(cur.res.value) = 22
           /\ Len(EncodeDigits(cur.arg)) <= 22
           /\ Len(PadDigits(EncodeDigits(cur.arg))) = 22

C2_Witness ==
    /\ cur.op = "coreEncode" /\ Len(cur.arg) = 16
    /\ Len(EncodeDigits(cur.arg)) \in 1..21
    /\ Len(cur.res.value) = 22

\* C3: every character encode returns is one of the 58 alphabet symbols,
\* never 0, O, I or l, and every digit looked up is in 0..57.
C3_AlphabetClosure ==
    (cur.op = "coreEncode" /\ Len(cur.arg) = 16)
        => /\ \A i \in 1..Len(cur.res.value) :
                  cur.res.value[i] \in Alphabet58 /\ cur.res.value[i] \notin ExcludedChars
           /\ LET digits == PadDigits(EncodeDigits(cur.arg))
              IN  \A i \in 1..Len(digits) : digits[i] \in 0..57

C3_Witness ==
    /\ cur.op = "coreEncode" /\ cur.res.kind = "ok"
    /\ \E i \in 1..22 : cur.res.value[i] = Ord("z")
    /\ \E i \in 1..22 : cur.res.value[i] = Ord("1")

\* C4: encoding the bytes decode returned for an accepted string gives that
\* string back, leading 1 symbols included.
C4_Canonical ==
    (cur.op = "coreEncode" /\ prev.op = "coreDecode" /\ prev.res.kind = "ok")
        => cur.res = [kind |-> "ok", value |-> prev.arg]

C4_Witness ==
    /\ cur.op = "coreEncode" /\ prev.op = "coreDecode" /\ prev.res.kind = "ok"
    /\ cur.arg = prev.res.value
    /\ prev.arg[1] = Ord("1") /\ prev.arg[2] = Ord("1") /\ prev.arg[22] = Ord("z")
    /\ cur.res.kind = "ok"

\* C5: a string of 22 alphabet symbols is rejected with Overflow, returning
\* no bytes, when its base-58 value exceeds 2^128-1, and accepted otherwise.
C5_OverflowRejection ==
    (cur.op = "coreDecode" /\ IsSymbolString(cur.arg))
        => IF BigGT(Base58Value(cur.arg), Repeat(255, 16))
           THEN DecodeFails("Overflow") /\ "value" \notin DOMAIN cur.res
           ELSE cur.res.kind = "ok"

C5_Witness ==
    /\ cur.op = "coreDecode"
    /\ cur.arg = Repeat(Ord("z"), 22)
    /\ DecodeFails("Overflow")

\* C6 as claimed: any input containing 0, O, I or l fails with
\* InvalidCharacter.
C6_AnyLength ==
    (cur.op = "coreDecode" /\ HasExcludedChar(cur.arg))
        => DecodeFails("InvalidCharacter")

\* C6: a 22-character input containing 0, O, I or l fails with
\* InvalidCharacter.
C6_ExcludedRejected ==
    (cur.op = "coreDecode" /\ Len(cur.arg) = 22 /\ HasExcludedChar(cur.arg))
        => DecodeFails("InvalidCharacter")

C6_Witness ==
    /\ cur.op = "coreDecode" /\ Len(cur.arg) = 22
    /\ cur.arg[1] = Ord("z") /\ cur.arg[22] = Ord("l")
    /\ DecodeFails("InvalidCharacter")

\* C7 as claimed: every input whose length is not 22, the empty string
\* included, fails with InvalidLength.
C7_EveryLength ==
    (cur.op = "coreDecode" /\ Len(cur.arg) # 22)
        => DecodeFails("InvalidLength")

\* C7: every non-empty input whose length is not 22 fails with
\* InvalidLength.
C7_LengthRejected ==
    (cur.op = "coreDecode" /\ Len(cur.arg) # 22 /\ Len(cur.arg) # 0)
        => DecodeFails("InvalidLength")

C7_Witness ==
    /\ cur.op = "coreDecode" /\ Len(cur.arg) = LongLen
    /\ DecodeFails("InvalidLength")

\* C8: the empty string fails with InvalidFormat, and InvalidLength is
\* reported only for non-empty inputs.
C8_EmptyInput ==
    cur.op = "coreDecode"
        => /\ Len(cur.arg) = 0 => DecodeFails("InvalidFormat")
           /\ DecodeFails("InvalidLength") => Len(cur.arg) # 0

C8_Witness ==
    /\ cur.op = "coreDecode" /\ cur.arg = <<>>
    /\ DecodeFails("InvalidFormat")

(***************************************************************************)
(* Properties of the public encode.                                        *)
(***************************************************************************)
\* The value of each hex digit, capital or small.
HexValues ==
    [c \in (Ord("0")..Ord("9")) \cup (Ord("a")..Ord("f")) \cup (Ord("A")..Ord("F")) |->
        IF c <= Ord("9") THEN c - Ord("0")
        ELSE IF c <= Ord("F") THEN c - Ord("A") + 10
        ELSE c - Ord("a") + 10]

\* Hex digits and hyphens only, with exactly 32 hex digits.
IsUuidSpelling(s) ==
    /\ \A i \in 1..Len(s) : s[i] = Ord("-") \/ s[i] \in DOMAIN HexValues
    /\ Cardinality({ i \in 1..Len(s) : s[i] # Ord("-") }) = 32

\* The values of the hex digits of a spelling, in order.
HexDigitsOf(s) ==
    LET digits == SelectSeq(s, LAMBDA c : c # Ord("-"))
    IN  [i \in 1..Len(digits) |-> HexValues[digits[i]]]

\* s occurs in t.
Contains(t, s) ==
    \E k \in 0..(Len(t) - Len(s)) : \A i \in 1..Len(s) : t[k + i] = s[i]

\* C9: two spellings of the same 32 hex digits, whatever their hyphens and
\* letter case, encode to the same 22-character string.
C9_Normalisation ==
    (/\ cur.op = "encode" /\ prev.op = "encode"
     /\ IsUuidSpelling(cur.arg) /\ IsUuidSpelling(prev.arg)
     /\ HexDigitsOf(cur.arg) = HexDigitsOf(prev.arg))
        => /\ cur.res.kind = "ok"
           /\ cur.res = prev.res
           /\ Len(cur.res.value) = 22

C9_Witness ==
    /\ cur.op = "encode" /\ prev.op = "encode"
    /\ Len(prev.arg) = 36
    /\ Len(cur.arg) = 34
    /\ cur.arg[1] = Ord("-") /\ cur.arg[2] = Ord("-")
    /\ \E i \in 1..Len(cur.arg) : cur.arg[i] = Ord("D")
    /\ \E i \in 1..Len(cur.arg) : cur.arg[i] = Ord("e")
    /\ cur.res.kind = "ok" /\ cur.res = prev.res

\* C10: an input that is not 32 hex digits plus hyphens makes the public
\* encode throw InvalidUUIDError, whose message contains the input; nothing
\* is returned, and no other kind of error leaves the public encode.
C10_Rejection ==
    cur.op = "encode"
        => /\ cur.res.kind \in {"ok", "InvalidUUIDError"}
           /\ ~IsUuidSpelling(cur.arg)
                  => /\ cur.res.kind = "InvalidUUIDError"
                     /\ "value" \notin DOMAIN cur.res
                     /\ Contains(cur.res.message, cur.arg)

C10_Witness ==
    /\ cur.op = "encode"
    /\ Len(cur.arg) = 32
    /\ cur.arg[32] = Ord("g")
    /\ cur.res.kind = "InvalidUUIDError"
    /\ Contains(cur.res.message, cur.arg)

(***************************************************************************)
(* Properties of the public decode and of generate.                        *)
(***************************************************************************)
\* C11: every failure of the core decode leaves the public decode as an
\* InvalidB58Error whose message contains the input and whose originalError
\* is the core failure; no other kind of error leaves it and no text is
\* returned with it.
C11_ErrorWrapping ==
    cur.op = "decode"
        => /\ cur.res.kind \in {"ok", "InvalidB58Error"}
           /\ LET core == Base58Decode(cur.arg) IN
              core.kind = "Error"
                  => /\ cur.res.kind = "InvalidB58Error"
                     /\ cur.res.name = "InvalidB58Error"
                     /\ Contains(cur.res.message, cur.arg)
                     /\ cur.res.originalError = core
                     /\ cur.res.originalError.failure
                            \in {"InvalidFormat", "InvalidLength", "InvalidCharacter", "Overflow"}
                     /\ "value" \notin DOMAIN cur.res

C11_Witness ==
    /\ cur.op = "decode"
    /\ cur.arg = Repeat(Ord("z"), 22)
    /\ cur.res.kind = "InvalidB58Error"
    /\ cur.res.originalError.failure = "Overflow"
    /\ Contains(cur.res.message, cur.arg)

\* The canonical text of a spelling: its 32 hex digits in lower case, with
\* hyphens as characters 9, 14, 19 and 24 of 36.
CanonicalText(u) ==
    LET h == HexDigitsOf(u)
    IN  [i \in 1..36 |->
            IF i \in {9, 14, 19, 24} THEN Ord("-")
            ELSE HexChars[h[i - Cardinality({ j \in {9, 14, 19, 24} : j < i })] + 1]]

\* C12: for a UUID string the public encode accepts, decoding its encoding
\* succeeds and returns its canonical text: the same 32 hex digits in lower
\* case, 36 characters, hyphens after digits 8, 12, 16 and 20 only.
C12_PublicRoundTrip ==
    (cur.op = "decode" /\ prev.op = "encode" /\ prev.res.kind = "ok")
        => /\ cur.res.kind = "ok"
           /\ Len(cur.res.value) = 36
           /\ cur.res.value = CanonicalText(prev.arg)

C12_Witness ==
    /\ cur.op = "decode" /\ prev.op = "encode" /\ prev.res.kind = "ok"
    /\ cur.arg = prev.res.value
    /\ Len(prev.arg) = 32
    /\ prev.arg[1] = Ord("D") /\ prev.arg[17] = Ord("0")
    /\ cur.res.kind = "ok"
    /\ cur.res.value[1] = Ord("d") /\ cur.res.value[9] = Ord("-")

\* C13: whatever 16 bytes the random source returns, generate returns 22
\* characters that the public decode accepts; the decoded UUID has version
\* nibble 4 (character 15 of the text) and variant bits 10 (the top two bits
\* of the nibble at character 20), and every other bit is the random
\* source's.
C13_Generate ==
    (cur.op = "decode" /\ prev.op = "generate")
        => /\ prev.res.kind = "ok" /\ Len(prev.res.value) = 22
           /\ cur.res.kind = "ok" /\ Len(cur.res.value) = 36
           /\ LET text == cur.res.value
                  rand == Respell(HexText(prev.arg), 0, TRUE, 0, 0, "lower")
              IN  /\ text[15] = Ord("4")
                  /\ HexValues[text[20]] \in 8..11
                  /\ HexValues[text[20]] % 4 = HexValues[rand[20]] % 4
                  /\ \A i \in (1..36) \ {15, 20} : text[i] = rand[i]

C13_Witness ==
    /\ cur.op = "decode" /\ prev.op = "generate"
    /\ prev.arg[7] = 255 /\ prev.arg[9] = 255 /\ prev.arg[16] = 1
    /\ cur.res.kind = "ok"
    /\ cur.res.value[15] = Ord("4") /\ cur.res.value[20] = Ord("b")

\* C14: after any sequence of encode and decode calls, failing ones
\* included, the reverse lookup table holds what it held after module
\* initialisation (each alphabet symbol's index, 255 everywhere else; the
\* alphabet itself is an immutable string), and a call repeated with the
\* argument of the call before it returns or throws the same.
C14_Stateless ==
    /\ REVERSE_ALPHABET =
           [c \in 0..255 |-> IF c \in Alphabet58 THEN SymbolValue(c) ELSE 255]
    /\ (prev.op = cur.op /\ prev.arg = cur.arg) => prev.res = cur.res

C14_Witness ==
    /\ prev.op = "coreDecode" /\ cur.op = "coreDecode"
    /\ prev.arg = cur.arg
    /\ DecodeFails("InvalidCharacter")
    /\ prev.res = cur.res

\* C15: the core decode checks the length before it scans characters, and
\* a character before it checks for overflow: an input whose length is not
\* 22 never fails with InvalidCharacter or Overflow, and 22 characters with
\* at least one outside the alphabet always fail with InvalidCharacter,
\* whatever digits come before that character.
C15_FailFastOrder ==
    cur.op = "coreDecode"
        => /\ Len(cur.arg) # 22
                => ~DecodeFails("InvalidCharacter") /\ ~DecodeFails("Overflow")
           /\ (Len(cur.arg) = 22 /\ \E i \in 1..22 : cur.arg[i] \notin Alphabet58)
                => DecodeFails("InvalidCharacter")

C15_Witness ==
    /\ cur.op = "coreDecode"
    /\ cur.arg = Repeat(Ord("z"), 21) \o <<Ord("O")>>
    /\ DecodeFails("InvalidCharacter")

\* C16 as stated: among the inputs there is a string of 22 alphabet symbols
\* on which the core decode fails with Overflow after fewer than 22
\* multiply-add steps.
C16_EarlyOverflow ==
    \E s \in DecodeInputs :
        LET res == Base58Decode(s) IN
        res.kind = "Error" /\ res.failure = "Overflow" /\ res.steps < 22

\* C16: the overflow check of the core decode fires at the 22nd
\* multiply-add step or not at all: the value of the first 21 symbols of a
\* 22-symbol string never exceeds 2^128-1 (58^21 < 2^128), so checking the
\* final value only would accept and reject the same strings.
C16_OverflowAtLastStep ==
    cur.op = "coreDecode"
        => /\ DecodeFails("Overflow") => cur.res.steps = 22
           /\ IsSymbolString(cur.arg)
                => ~BigGT(Base58Value(SubSeq(cur.arg, 1, 21)), Repeat(255, 16))

C16_Witness ==
    /\ cur.op = "coreDecode"
    /\ cur.arg = Repeat(Ord("z"), 22)
    /\ DecodeFails("Overflow")
    /\ cur.res.steps = 22

\* C17: on 22 characters of which one or more are outside the alphabet (an
\* excluded look-alike, a space, a code unit in 128..255 or one above 255)
\* the core decode fails with InvalidCharacter, and the failure names the
\* smallest index holding such a character and the character at that index.
C17_InvalidCharacterContext ==
    (cur.op = "coreDecode" /\ Len(cur.arg) = 22
        /\ \E i \in 1..22 : cur.arg[i] \notin Alphabet58)
        => LET first == CHOOSE i \in 1..22 :
                            /\ cur.arg[i] \notin Alphabet58
                            /\ \A j \in 1..(i - 1) : cur.arg[j] \in Alphabet58
           IN  /\ DecodeFails("InvalidCharacter")
               /\ cur.res.pos = first - 1
               /\ cur.res.ch = cur.arg[first]

C17_Witness ==
    /\ cur.op = "coreDecode" /\ Len(cur.arg) = 22
    /\ cur.arg[1] = Ord("z") /\ cur.arg[2] = 200 /\ cur.arg[3] = 27979
    /\ DecodeFails("InvalidCharacter")
    /\ cur.res.pos = 1 /\ cur.res.ch = 200

\* C18: what encode returns for a 16-byte buffer is 22-k copies of '1'
\* followed by the k significant base-58 digits of the buffer's value, most
\* significant first (a first digit that is not '1', and digits whose value
\* is the buffer's); the all-zero buffer gives 22 copies of '1' and the
\* value 1 gives twenty-one '1' and a '2'; and decode accepts 22 copies of
\* '1' and returns 16 zero bytes.
C18_ZeroAndPadding ==
    /\ (cur.op = "coreEncode" /\ Len(cur.arg) = 16)
         => /\ cur.res.kind = "ok" /\ Len(cur.res.value) = 22
            /\ \E k \in 0..22 :
                 /\ \A i \in 1..(22 - k) : cur.res.value[i] = Ord("1")
                 /\ k > 0 => cur.res.value[23 - k] # Ord("1")
                 /\ \A i \in (23 - k)..22 : cur.res.value[i] \in Alphabet58
                 /\ Base58Value(SubSeq(cur.res.value, 23 - k, 22)) = BigNorm(cur.arg)
            /\ cur.arg = Repeat(0, 16) => cur.res.value = Repeat(Ord("1"), 22)
            /\ cur.arg = Repeat(0, 15) \o <<1>>
                 => cur.res.value = Repeat(Ord("1"), 21) \o <<Ord("2")>>
    /\ (cur.op = "coreDecode" /\ cur.arg = Repeat(Ord("1"), 22))
         => cur.res.kind = "ok" /\ cur.res.value = Repeat(0, 16)

C18_Witness ==
    /\ cur.op = "coreDecode" /\ prev.op = "coreEncode"
    /\ prev.arg = Repeat(0, 16)
    /\ prev.res.value = Repeat(Ord("1"), 22)
    /\ cur.arg = prev.res.value
    /\ cur.res.kind = "ok" /\ cur.res.value = Repeat(0, 16)

\* Plain character-code comparison of two strings, as < on JS strings.
StrLT(a, b) ==
    \E i \in 1..(Len(b)) :
        /\ i <= Len(a) + 1
        /\ \A j \in 1..(i - 1) : a[j] = b[j]
        /\ i = Len(a) + 1 \/ a[i] < b[i]

\* C19: sixteen 0xFF bytes encode to YcVfxkQb6JRzqk5kF2tNLv, that string
\* decodes to sixteen 0xFF bytes, and no string the decoder accepts sorts
\* after it.
C19_MaxCase ==
    /\ (cur.op = "coreEncode" /\ cur.arg = Repeat(255, 16))
         => cur.res.kind = "ok" /\ cur.res.value = MaxB58
    /\ (cur.op = "coreDecode" /\ cur.arg = MaxB58)
         => cur.res.kind = "ok" /\ cur.res.value = Repeat(255, 16)
    /\ (cur.op = "coreDecode" /\ cur.res.kind = "ok") => ~StrLT(MaxB58, cur.arg)

C19_Witness ==
    /\ cur.op = "coreDecode" /\ prev.op = "coreEncode"
    /\ prev.arg = Repeat(255, 16)
    /\ cur.arg = MaxB58
    /\ cur.res.kind = "ok" /\ cur.res.value = Repeat(255, 16)

\* Two 16-byte buffers compared as big-endian 128-bit integers.
BytesLT(a, b) ==
    \E i \in 1..16 : a[i] < b[i] /\ \A j \in 1..(i - 1) : a[j] = b[j]

\* C20: of two 16-byte buffers, the first is the smaller big-endian integer
\* exactly when its encoding sorts before the other's under character-code
\* comparison.
C20_OrderPreserved ==
    (prev.op = "coreEncode" /\ cur.op = "coreEncode")
        => /\ prev.res.kind = "ok" /\ cur.res.kind = "ok"
           /\ BytesLT(prev.arg, cur.arg) <=> StrLT(prev.res.value, cur.res.value)

C20_Witness ==
    /\ prev.op = "coreEncode" /\ cur.op = "coreEncode"
    /\ prev.arg = Repeat(0, 8) \o <<255>> \o Repeat(255, 7)
    /\ cur.arg = Repeat(0, 8) \o <<254>> \o Repeat(255, 7)
    /\ StrLT(cur.res.value, prev.res.value)
    /\ ~StrLT(prev.res.value, cur.res.value)

====
